---- MODULE Spec2Model ----
(***************************************************************************)
(* The pairing and canonicalization engine of the orchestrator:            *)
(* orchestrator/consensus/service.go (Canonicalize, invokeInvalidation,    *)
(* handlePreparedWork) together with the ingestion hook of                  *)
(* orchestrator/vanguardchain/handler.go.                                   *)
(*                                                                         *)
(* The two header-hash stores and the realm store are the key-value        *)
(* database of the repository (orchestrator/db/kv), of which only the      *)
(* callers are at hand: Save is an upsert, the range read returns a dense  *)
(* array of `limit` positions with nil at missing slots, and a failing     *)
(* operation leaves the store as it was.                                   *)
(*                                                                         *)
(* A pass is a sequence of steps, one per iteration of the verification    *)
(* loop and one per later phase, so that the states in the middle of a     *)
(* pass are states of the model. The ingestion hooks act between passes.   *)
(***************************************************************************)
EXTENDS Integers, Sequences, FiniteSets, TLC

\* ---------------------------------------------------------------- bounds
MaxSlot == 2
MaxFailures == 1
MaxEvents == 6
UintBits == 16
MergeInputs == 2
MergeValues == 2
MaxSent == 3
ChanCap == 1
CacheSlots == 2
CacheValues == 2
MaxHeaders == 4

Slots == 0..MaxSlot
BatchLimits == 0..(MaxSlot + 1)
UintMod == 2 ^ UintBits

\* ------------------------------------------------------- types.HeaderHash
Pending == "Pending"
Verified == "Verified"
Skipped == "Skipped"

EmptyHash == 0

\* a nil *types.HeaderHash
Nil == [HeaderHash |-> EmptyHash, Status |-> "nil"]

HeaderHash(hash, status) == [HeaderHash |-> hash, Status |-> status]

uint64(x) == x % UintMod

\* block.HashTreeRoot() and header.Hash(): digests of the block, never the empty
\* hash, distinct between slots and between the two chains. Each chain has one
\* candidate block per slot.
HashTreeRoot(block) == 2 * block.Slot + 1
PandoraHash(header) == 2 * header.Slot + 2

\* ----------------------------------------------------------- databaseErrors
databaseErrors(v, p, r) == [vanguardErr |-> v, pandoraErr |-> p, realmErr |-> r]
NoErrors == databaseErrors(FALSE, FALSE, FALSE)

VARIABLES
    VanguardHeaderHashDB,   \* slot -> record or Nil
    PandoraHeaderHashDB,    \* slot -> record or Nil
    RealmDB,                \* latestVerifiedSlot
    errChan,                \* buffered channel of databaseErrors
    pc,                     \* where the caller of Canonicalize stands
    work,                   \* invalidationWorkPayload and the locals of handlePreparedWork
    ret,                    \* the triple the last call of Canonicalize returned
    writes,                 \* Save calls made by the current call of Canonicalize
    last,                   \* the pass that ended last, when nothing was ingested since
    failures,               \* storage operations that failed so far
    events,                 \* calls of the hooks and of Canonicalize, headers received
    \* the work loop (service.go:276-378)
    loopPc,                 \* where the goroutine of the work loop stands
    possiblePendingWork,    \* headers accumulated since the last trigger
    mergedHeadersChanBridge, \* the header the loop is sending to the debouncer
    debounce,               \* the debouncer: its timer and the event it holds
    canonicalizeChan,       \* the slot the debounce handler is sending, if any
    isWorking,
    onceAtTheTime,          \* "fresh" or "done"
    running,                \* calls of Canonicalize made by the loop and not returned
    \* merge (service.go:701-718)
    cs,                     \* the input channels: their queue and whether closed
    forwarder,              \* the goroutine of each input: its position and its value v
    wg,                     \* the counter of the WaitGroup
    out,                    \* the output channel: whether closed, the values received from it
    sent,                   \* the values sent on each input so far
    \* Start and Stop (service.go:57-79)
    stopListener,           \* the goroutine of Start: "waiting" or "returned"
    stopped,                \* "no", or when Stop returned: "betweenPasses", "duringPass"
    \* PanHeaderCache and the headers of its callers
    headers,                \* the headers allocated so far: address -> Number, Extra
    extras,                 \* the byte slices the Extra fields point to
    cache,                  \* the lru.Cache: slot -> address, and the order of use
    held,                   \* the addresses of the headers the callers hold
    puts,                   \* the value each slot was last Put with, the slot Put last
    op                      \* the last call: its name, its slot, the address returned

engineVars == <<VanguardHeaderHashDB, PandoraHeaderHashDB, RealmDB, errChan, pc, work,
                ret, writes, last, failures, events>>

loopVars == <<loopPc, possiblePendingWork, mergedHeadersChanBridge, debounce,
              canonicalizeChan, isWorking, onceAtTheTime, running>>

mergeVars == <<cs, forwarder, wg, out, sent>>

stopVars == <<stopListener, stopped>>

cacheVars == <<headers, extras, cache, held, puts, op>>

vars == <<engineVars, loopVars, mergeVars, stopVars, cacheVars>>

\* ------------------------------------------------------------ the stores
\* VanguardHeaderHashes / PandoraHeaderHashes: a dense array of `limit` records
HeaderHashes(db, fromSlot, limit) ==
    [i \in 1..limit |-> IF fromSlot + i - 1 \in Slots THEN db[fromSlot + i - 1] ELSE Nil]

\* a store that refuses a record below the watermark
SaveAboveWatermark(db, slot, headerHash, fails) ==
    IF fails \/ slot \notin Slots \/ slot < RealmDB THEN db ELSE [db EXCEPT ![slot] = headerHash]

\* SaveVanguardHeaderHash / SavePandoraHeaderHash: upsert, nothing on failure
SaveHeaderHash(db, slot, headerHash, fails) ==
    IF fails \/ slot \notin Slots THEN db ELSE [db EXCEPT ![slot] = headerHash]

\* SaveLatestVerifiedRealmSlot: sets the value, nothing on failure
SaveLatestVerifiedRealmSlot(realm, slot, fails) ==
    IF fails THEN realm ELSE slot

\* the sets of storage operations that may fail in one step
Failing(ops) == {F \in SUBSET ops : Cardinality(F) <= MaxFailures - failures}

Min(a, b) == IF a <= b THEN a ELSE b

\* uint64 subtraction (at the width of the model)
SubUint(a, b) == (a - b + UintMod) % UintMod

\* no pass has ended since the last ingestion
NoPass ==
    [ended |-> FALSE, fromSlot |-> 0, batchLimit |-> 0, start |-> 0,
     clean |-> TRUE, errored |-> FALSE,
     vanguard |-> <<>>, pandora |-> <<>>, realm |-> 0]

NoWork ==
    [invalidationStartRealmSlot |-> 0, fromSlot |-> 0, batchLimit |-> 0,
     possibleSkippedPair |-> <<>>, pandoraHashes |-> <<>>, vanguardHashes |-> <<>>,
     pandoraOrphans |-> {}, vanguardOrphans |-> {}, index |-> 0,
     vanguardErr |-> FALSE, pandoraErr |-> FALSE, realmErr |-> FALSE,
     latestSavedVerifiedRealmSlot |-> 0, invalidationRange |-> 0, clean |-> TRUE]

\* merge has just returned: nothing sent, wg.Add(len(cs)) done
Inputs == 1..MergeInputs
Values == 1..MergeValues

MergeStarted ==
    /\ cs = [i \in Inputs |-> [queue |-> <<>>, closed |-> FALSE]]
    /\ forwarder = [i \in Inputs |-> [pc |-> "range", v |-> 0]]
    /\ wg = MergeInputs
    /\ out = [closed |-> FALSE, received |-> <<>>]
    /\ sent = [i \in Inputs |-> <<>>]

\* NewPanHeaderCache: an empty cache; a caller holds one header
CacheKeys == 0..(CacheSlots - 1)
NoHeader == 0
NewPanHeaderCache ==
    /\ headers = <<[Number |-> 0, Extra |-> 1]>>
    /\ extras = <<0>>
    /\ cache = [items |-> [k \in CacheKeys |-> NoHeader], order |-> <<>>]
    /\ held = {1}
    /\ puts = [value |-> [k \in CacheKeys |-> NoHeader], last |-> -1]
    /\ op = [name |-> "New", slot |-> 0, result |-> NoHeader]

\* lines 58-67: the goroutine of Start waits on stopChan; Stop was not called
StopNotCalled == stopListener = "waiting" /\ stopped = "no"

\* the work loop before Start
LoopNotStarted ==
    /\ loopPc = "select"
    /\ possiblePendingWork = <<>>
    /\ mergedHeadersChanBridge = Nil
    /\ debounce = [armed |-> FALSE, event |-> Nil]
    /\ canonicalizeChan = <<>>
    /\ isWorking = FALSE
    /\ onceAtTheTime = "fresh"
    /\ running = 0

Init ==
    /\ VanguardHeaderHashDB = [s \in Slots |-> Nil]
    /\ PandoraHeaderHashDB = [s \in Slots |-> Nil]
    /\ RealmDB = 0
    /\ errChan = <<>>
    /\ pc = "idle"
    /\ work = NoWork
    /\ ret = NoErrors
    /\ writes = {}
    /\ last = NoPass
    /\ failures = 0
    /\ events = 0
    /\ LoopNotStarted
    /\ MergeStarted
    /\ StopNotCalled
    /\ NewPanHeaderCache

\* ------------------------------------------------------- ingestion hooks
\* vanguardchain.Service.OnNewPendingVanguardBlock; a nil block is block = Nil
OnNewPendingVanguardBlock(block) ==
    /\ pc = "idle"
    /\ events < MaxEvents
    /\ IF block = Nil
       THEN UNCHANGED <<VanguardHeaderHashDB, events, last, writes>>
       ELSE /\ VanguardHeaderHashDB' =
                   SaveHeaderHash(VanguardHeaderHashDB, uint64(block.Slot),
                                  HeaderHash(HashTreeRoot(block), Pending), FALSE)
            /\ events' = events + 1
            /\ last' = NoPass
            /\ writes' = {}
    /\ UNCHANGED <<PandoraHeaderHashDB, RealmDB, errChan, pc, work, ret, failures>>

\* the execution chain's hook: persist {hash(header), Pending} at the header's slot
OnNewPendingPandoraHeader(header) ==
    /\ pc = "idle"
    /\ events < MaxEvents
    /\ events' = events + 1
    /\ PandoraHeaderHashDB' =
           SaveHeaderHash(PandoraHeaderHashDB, uint64(header.Slot),
                          HeaderHash(PandoraHash(header), Pending), FALSE)
    /\ last' = NoPass
    /\ writes' = {}
    /\ UNCHANGED <<VanguardHeaderHashDB, RealmDB, errChan, pc, work, ret, failures>>

\* ------------------------------------------------------------ Canonicalize
dbs == <<VanguardHeaderHashDB, PandoraHeaderHashDB, RealmDB>>

\* what a pass leaves when it ends: its arguments, the stores and the watermark
Entry(w, van, pan, realm, errored) ==
    [ended |-> TRUE, fromSlot |-> w.fromSlot, batchLimit |-> w.batchLimit,
     start |-> w.invalidationStartRealmSlot, clean |-> w.clean, errored |-> errored,
     vanguard |-> van, pandora |-> pan, realm |-> realm]

\* handlePreparedWork returns and with it the default branch of Canonicalize,
\* whose named results were never assigned
Return(w, van, pan, realm, errored) ==
    /\ pc' = "idle"
    /\ ret' = NoErrors
    /\ work' = NoWork
    /\ last' = Entry(w, van, pan, realm, errored)

\* invokeInvalidation: the preparation step of the default branch
invokeInvalidation(fromSlot, batchLimit) ==
    LET latestSavedVerifiedRealmSlot == RealmDB
    IN  IF fromSlot > latestSavedVerifiedRealmSlot
        THEN \* the error is sent and Canonicalize waits for a payload that never comes
             /\ errChan' = Append(errChan, databaseErrors(FALSE, FALSE, TRUE))
             /\ pc' = "blockedOnPayload"
             /\ UNCHANGED <<work, failures>>
        ELSE \E F \in Failing({"pandoraRead", "vanguardRead"}) :
             IF "pandoraRead" \in F
             THEN /\ errChan' = Append(errChan, databaseErrors(FALSE, TRUE, FALSE))
                  /\ pc' = "blockedOnPayload"
                  /\ failures' = failures + 1
                  /\ UNCHANGED work
             ELSE IF "vanguardRead" \in F
             THEN /\ errChan' = Append(errChan, databaseErrors(TRUE, FALSE, FALSE))
                  /\ pc' = "blockedOnPayload"
                  /\ failures' = failures + 1
                  /\ UNCHANGED work
             ELSE IF batchLimit < 1
             THEN \* skipChan <- true: unbuffered, and its reader is this very caller
                  /\ pc' = "blockedOnSkip"
                  /\ UNCHANGED <<errChan, work, failures>>
             ELSE /\ work' = [NoWork EXCEPT
                        !.invalidationStartRealmSlot = latestSavedVerifiedRealmSlot,
                        !.fromSlot = fromSlot,
                        !.batchLimit = batchLimit,
                        !.pandoraHashes = HeaderHashes(PandoraHeaderHashDB, fromSlot, batchLimit),
                        !.vanguardHashes = HeaderHashes(VanguardHeaderHashDB, fromSlot, batchLimit)]
                  /\ pc' = "verify"
                  /\ UNCHANGED <<errChan, failures>>

\* Service.Canonicalize on a started service: the select and its default branch
Canonicalize(fromSlot, batchLimit) ==
    /\ pc = "idle"
    /\ events < MaxEvents
    /\ events' = events + 1
    /\ writes' = {}
    /\ UNCHANGED dbs
    /\ IF errChan # <<>>
       THEN \* case databaseErrorList := <-errChan
            /\ ret' = Head(errChan)
            /\ errChan' = Tail(errChan)
            /\ UNCHANGED <<pc, work, last, failures>>
       ELSE /\ invokeInvalidation(fromSlot, batchLimit)
            /\ UNCHANGED <<ret, last>>

\* ------------------------------------------------------- handlePreparedWork
VerifiedHeaderHash(headerHash) == HeaderHash(headerHash.HeaderHash, Verified)
SkippedHeaderHash == HeaderHash(EmptyHash, Skipped)

\* a break condition that lets the loop go on after a single failed write
BreakOnBothErrors(vanguardErr, pandoraErr) == vanguardErr /\ pandoraErr

\* line 465: leave the loop when a store write failed
BreakOnError(vanguardErr, pandoraErr) == vanguardErr \/ pandoraErr

\* lines 472, 526, 570, 630, 682: the error checks between the phases
GotError(vanguardErr, pandoraErr, realmErr) == vanguardErr \/ pandoraErr \/ realmErr

\* one iteration of the verification loop (lines 404-470)
VerifyPair ==
    /\ pc = "verify"
    /\ work.index < Len(work.vanguardHashes)
    /\ work.index < Len(work.pandoraHashes)
    /\ LET index == work.index
           slotToCheck == work.fromSlot + index
           vanguardBlockHash == work.vanguardHashes[index + 1]
           pandoraHeaderHash == work.pandoraHashes[index + 1]
       IN  IF pandoraHeaderHash = Nil /\ vanguardBlockHash = Nil
           THEN /\ work' = [work EXCEPT !.possibleSkippedPair = Append(@, slotToCheck),
                                        !.index = @ + 1]
                /\ UNCHANGED <<dbs, pc, writes, failures>>
           ELSE IF pandoraHeaderHash = Nil
           THEN /\ work' = [work EXCEPT !.vanguardOrphans = @ \cup {slotToCheck},
                                        !.index = @ + 1]
                /\ UNCHANGED <<dbs, pc, writes, failures>>
           ELSE IF vanguardBlockHash = Nil
           THEN /\ work' = [work EXCEPT !.pandoraOrphans = @ \cup {slotToCheck},
                                        !.index = @ + 1]
                /\ UNCHANGED <<dbs, pc, writes, failures>>
           ELSE \E vanguardErr, pandoraErr, realmFails \in BOOLEAN :
                LET broke == BreakOnError(vanguardErr, pandoraErr)
                    realmErr == ~broke /\ realmFails
                    n == (IF vanguardErr THEN 1 ELSE 0) + (IF pandoraErr THEN 1 ELSE 0)
                         + (IF realmErr THEN 1 ELSE 0)
                IN  /\ n <= MaxFailures - failures
                    /\ (broke => ~realmFails)
                    /\ failures' = failures + n
                    /\ VanguardHeaderHashDB' =
                           SaveHeaderHash(VanguardHeaderHashDB, slotToCheck,
                                          VerifiedHeaderHash(vanguardBlockHash), vanguardErr)
                    /\ PandoraHeaderHashDB' =
                           SaveHeaderHash(PandoraHeaderHashDB, slotToCheck,
                                          VerifiedHeaderHash(pandoraHeaderHash), pandoraErr)
                    /\ RealmDB' = IF broke THEN RealmDB
                                  ELSE SaveLatestVerifiedRealmSlot(RealmDB, slotToCheck, realmErr)
                    /\ writes' = writes
                           \cup {<<"vanguard", slotToCheck, Verified>>,
                                 <<"pandora", slotToCheck, Verified>>}
                           \cup (IF broke THEN {} ELSE {<<"realm", slotToCheck, Verified>>})
                    /\ work' = [work EXCEPT
                           !.vanguardErr = vanguardErr,
                           !.pandoraErr = pandoraErr,
                           !.realmErr = IF broke THEN @ ELSE realmErr,
                           !.clean = @ /\ n = 0,
                           !.index = IF broke THEN @ ELSE @ + 1]
                    /\ pc' = IF broke THEN "break" ELSE "verify"
    /\ UNCHANGED <<errChan, ret, last, events>>

\* a range that is never 0
InvalidationRangePlusOne(latestSavedVerifiedRealmSlot, invalidationStartRealmSlot) ==
    SubUint(latestSavedVerifiedRealmSlot, invalidationStartRealmSlot) + 1

\* line 493: invalidationRange, a difference of two uint64
InvalidationRange(latestSavedVerifiedRealmSlot, invalidationStartRealmSlot) ==
    SubUint(latestSavedVerifiedRealmSlot, invalidationStartRealmSlot)

\* the end of the loop, the error check of line 472 and the range check of line 496
\* (the check invalidationRange < 0 of line 504 is on an unsigned value)
AfterVerify ==
    /\ \/ pc = "break"
       \/ /\ pc = "verify"
          /\ work.index >= Min(Len(work.vanguardHashes), Len(work.pandoraHashes))
    /\ IF GotError(work.vanguardErr, work.pandoraErr, work.realmErr)
       THEN /\ errChan' = Append(errChan, databaseErrors(work.vanguardErr, work.pandoraErr,
                                                         work.realmErr))
            /\ Return(work, VanguardHeaderHashDB, PandoraHeaderHashDB, RealmDB, TRUE)
       ELSE LET latestSavedVerifiedRealmSlot == RealmDB
                invalidationRange ==
                    InvalidationRange(latestSavedVerifiedRealmSlot,
                                      work.invalidationStartRealmSlot)
            IN  /\ UNCHANGED errChan
                /\ IF 0 = invalidationRange
                   THEN Return(work, VanguardHeaderHashDB, PandoraHeaderHashDB, RealmDB, FALSE)
                   ELSE /\ work' = [work EXCEPT
                               !.latestSavedVerifiedRealmSlot = latestSavedVerifiedRealmSlot,
                               !.invalidationRange = invalidationRange]
                        /\ pc' = "orphans"
                        /\ UNCHANGED <<ret, last>>
    /\ UNCHANGED <<dbs, writes, failures, events>>

\* lines 526, 570, 600, 630, 682: the later checks look at the two stores only
StoreError(vanguardErr, pandoraErr) == vanguardErr \/ pandoraErr

Max(S) == CHOOSE x \in S : \A y \in S : y <= x

\* Save of headerHash at every slot of `slots`, except where the write fails
SaveAll(db, slots, headerHash, failed) ==
    [s \in Slots |-> IF s \in slots \ failed THEN headerHash ELSE db[s]]

\* an error variable assigned at every iteration of a loop over a map holds the
\* outcome of the write made last, and the order of a map is any order
LastOfMap(before, written, failed) ==
    IF written = {} THEN {before} ELSE {(s \in failed) : s \in written}

\* the same for a loop over a slice: the write at the highest slot is the last
LastOfSlice(before, written, failed) ==
    IF written = {} THEN before ELSE Max(written) \in failed

\* lines 510-537: every orphan is written {empty hash, Skipped}
MarkOrphans ==
    /\ pc = "orphans"
    /\ \E PF \in SUBSET work.pandoraOrphans, VF \in SUBSET work.vanguardOrphans :
         /\ Cardinality(PF) + Cardinality(VF) <= MaxFailures - failures
         /\ \E pandoraErr \in LastOfMap(work.pandoraErr, work.pandoraOrphans, PF),
               vanguardErr \in LastOfMap(work.vanguardErr, work.vanguardOrphans, VF) :
              LET pan == SaveAll(PandoraHeaderHashDB, work.pandoraOrphans, SkippedHeaderHash, PF)
                  van == SaveAll(VanguardHeaderHashDB, work.vanguardOrphans, SkippedHeaderHash, VF)
                  w == [work EXCEPT !.pandoraErr = pandoraErr, !.vanguardErr = vanguardErr,
                                    !.clean = @ /\ PF = {} /\ VF = {}]
              IN  /\ PandoraHeaderHashDB' = pan
                  /\ VanguardHeaderHashDB' = van
                  /\ failures' = failures + Cardinality(PF) + Cardinality(VF)
                  /\ writes' = writes
                         \cup {<<"pandora", s, Skipped>> : s \in work.pandoraOrphans}
                         \cup {<<"vanguard", s, Skipped>> : s \in work.vanguardOrphans}
                  /\ IF StoreError(vanguardErr, pandoraErr)
                     THEN /\ errChan' = Append(errChan,
                                   databaseErrors(vanguardErr, pandoraErr, work.realmErr))
                          /\ Return(w, van, pan, RealmDB, TRUE)
                     ELSE /\ work' = w
                          /\ pc' = "skipped"
                          /\ UNCHANGED <<errChan, ret, last>>
    /\ UNCHANGED <<RealmDB, events>>

\* lines 539-611: the both-empty slots up to the watermark are written Skipped on
\* both stores, in ascending order, until a write fails; the pairs above the
\* watermark go to pendingPairs, whose loop writes nothing (their hashes are nil)
ResolveSkipped ==
    /\ pc = "skipped"
    /\ LET pairs == work.possibleSkippedPair
           due == {s \in {pairs[i] : i \in 1..Len(pairs)} :
                      ~(s > work.latestSavedVerifiedRealmSlot)}
       IN  \E failAt \in due \cup {-1}, vanguardFails, pandoraFails \in BOOLEAN :
             LET n == (IF vanguardFails THEN 1 ELSE 0) + (IF pandoraFails THEN 1 ELSE 0)
                 tried == {s \in due : failAt = -1 \/ s <= failAt}
                 vanguardErr == IF tried = {} THEN work.vanguardErr ELSE vanguardFails
                 pandoraErr == IF tried = {} THEN work.pandoraErr ELSE pandoraFails
                 van == SaveAll(VanguardHeaderHashDB, tried, SkippedHeaderHash,
                                IF vanguardFails THEN {failAt} ELSE {})
                 pan == SaveAll(PandoraHeaderHashDB, tried, SkippedHeaderHash,
                                IF pandoraFails THEN {failAt} ELSE {})
                 w == [work EXCEPT !.pandoraErr = pandoraErr, !.vanguardErr = vanguardErr,
                                   !.clean = @ /\ n = 0]
             IN  /\ (failAt = -1) <=> (n = 0)
                 /\ n <= MaxFailures - failures
                 /\ failures' = failures + n
                 /\ VanguardHeaderHashDB' = van
                 /\ PandoraHeaderHashDB' = pan
                 /\ writes' = writes
                        \cup {<<"vanguard", s, Skipped>> : s \in tried}
                        \cup {<<"pandora", s, Skipped>> : s \in tried}
                 /\ IF StoreError(vanguardErr, pandoraErr)
                    THEN /\ errChan' = Append(errChan,
                                  databaseErrors(vanguardErr, pandoraErr, work.realmErr))
                         /\ Return(w, van, pan, RealmDB, TRUE)
                    ELSE /\ work' = w
                         /\ pc' = "fill"
                         /\ UNCHANGED <<errChan, ret, last>>
    /\ UNCHANGED <<RealmDB, events>>

\* a fill that writes each position one slot too far
FillSlotNext(fromSlot, invalidationStartRealmSlot, index) == fromSlot + index + 1

\* line 650, 669: the slot a position of the final batch is written at
FillSlot(fromSlot, invalidationStartRealmSlot, index) == fromSlot + index

\* lines 613-699: the two stores are read again over
\* [invalidationStartRealmSlot, invalidationStartRealmSlot + invalidationRange) and
\* every nil position is written {empty hash, Skipped} at FillSlot, up to the
\* watermark. Positions past MaxSlot are nil and belong to slots above the
\* watermark, so the first MaxSlot + 1 positions are all that can be written.
FillGaps ==
    /\ pc = "fill"
    /\ \E R \in Failing({"vanguardRead", "pandoraRead"}) :
         IF R # {}
         THEN /\ errChan' = Append(errChan,
                       databaseErrors("vanguardRead" \in R, "pandoraRead" \in R, work.realmErr))
              /\ failures' = failures + Cardinality(R)
              /\ Return([work EXCEPT !.clean = FALSE], VanguardHeaderHashDB,
                        PandoraHeaderHashDB, RealmDB, TRUE)
              /\ UNCHANGED <<dbs, writes>>
         ELSE LET n == Min(work.invalidationRange, MaxSlot + 1)
                  finalVanguardBatch ==
                      HeaderHashes(VanguardHeaderHashDB, work.invalidationStartRealmSlot, n)
                  finalPandoraBatch ==
                      HeaderHashes(PandoraHeaderHashDB, work.invalidationStartRealmSlot, n)
                  Gaps(batch) ==
                      {s \in {FillSlot(work.fromSlot, work.invalidationStartRealmSlot, i - 1) :
                                 i \in {j \in 1..n : batch[j] = Nil}} :
                          ~(s > work.latestSavedVerifiedRealmSlot)}
                  vanguardGaps == Gaps(finalVanguardBatch)
                  pandoraGaps == Gaps(finalPandoraBatch)
              IN  \E VF \in SUBSET vanguardGaps, PF \in SUBSET pandoraGaps :
                    LET vanguardErr == LastOfSlice(FALSE, vanguardGaps, VF)
                        pandoraErr == LastOfSlice(FALSE, pandoraGaps, PF)
                        van == SaveAll(VanguardHeaderHashDB, vanguardGaps, SkippedHeaderHash, VF)
                        pan == SaveAll(PandoraHeaderHashDB, pandoraGaps, SkippedHeaderHash, PF)
                        w == [work EXCEPT !.clean = @ /\ VF = {} /\ PF = {}]
                    IN  /\ Cardinality(VF) + Cardinality(PF) <= MaxFailures - failures
                        /\ failures' = failures + Cardinality(VF) + Cardinality(PF)
                        /\ VanguardHeaderHashDB' = van
                        /\ PandoraHeaderHashDB' = pan
                        /\ UNCHANGED RealmDB
                        /\ writes' = writes
                               \cup {<<"vanguard", s, Skipped>> : s \in vanguardGaps}
                               \cup {<<"pandora", s, Skipped>> : s \in pandoraGaps}
                        /\ IF StoreError(vanguardErr, pandoraErr)
                           THEN /\ errChan' = Append(errChan,
                                         databaseErrors(vanguardErr, pandoraErr, work.realmErr))
                                /\ Return(w, van, pan, RealmDB, TRUE)
                           ELSE /\ UNCHANGED errChan
                                /\ Return(w, van, pan, RealmDB, FALSE)
    /\ UNCHANGED events

\* ------------------------------------------------------------------- Next
\* the hooks and Canonicalize called directly, one call at a time
Next ==
    \/ (\E s \in Slots : OnNewPendingVanguardBlock([Slot |-> s])) /\ UNCHANGED <<loopVars, mergeVars, stopVars, cacheVars>>
    \/ OnNewPendingVanguardBlock(Nil) /\ UNCHANGED <<loopVars, mergeVars, stopVars, cacheVars>>
    \/ (\E s \in Slots : OnNewPendingPandoraHeader([Slot |-> s])) /\ UNCHANGED <<loopVars, mergeVars, stopVars, cacheVars>>
    \/ (\E fromSlot \in Slots, batchLimit \in BatchLimits :
            Canonicalize(fromSlot, batchLimit)) /\ UNCHANGED <<loopVars, mergeVars, stopVars, cacheVars>>
    \/ VerifyPair /\ UNCHANGED <<loopVars, mergeVars, stopVars, cacheVars>>
    \/ AfterVerify /\ UNCHANGED <<loopVars, mergeVars, stopVars, cacheVars>>
    \/ MarkOrphans /\ UNCHANGED <<loopVars, mergeVars, stopVars, cacheVars>>
    \/ ResolveSkipped /\ UNCHANGED <<loopVars, mergeVars, stopVars, cacheVars>>
    \/ FillGaps /\ UNCHANGED <<loopVars, mergeVars, stopVars, cacheVars>>

Spec == Init /\ [][Next]_vars

\* --------------------------------------------------------------- workLoop
\* line 342: the batch limit of the loop's calls (50000) covers every slot
CanonicalizationBatchLimit == MaxSlot + 1

\* the values received from the merged channel: a header, or nil
AnyHeader == HeaderHash(HashTreeRoot([Slot |-> 0]), Pending)
Headers == {AnyHeader, Nil}

\* a threshold of one header
NotEnoughPendingForOne(pending) == Len(pending) < 1

\* line 313: len(possiblePendingWork) < 2
NotEnoughPending(pending) == Len(pending) < 2

\* lines 293-319: the handler given to the debouncer; its send on the unbuffered
\* canonicalizeChan lasts until the loop receives
mergedChannelHandler(workHeader) ==
    LET header == workHeader
        latestVerifiedRealmSlot == RealmDB
    IN  IF header = Nil
        THEN UNCHANGED canonicalizeChan
        ELSE IF NotEnoughPending(possiblePendingWork)
        THEN UNCHANGED canonicalizeChan
        ELSE canonicalizeChan' = <<latestVerifiedRealmSlot>>

\* lines 324-328: case header := <-mergedChannel, up to the send on the bridge
ReceiveHeader(header) ==
    /\ loopPc = "select"
    /\ events < MaxEvents
    /\ events' = events + 1
    /\ possiblePendingWork' = Append(possiblePendingWork, header)
    /\ mergedHeadersChanBridge' = header
    /\ loopPc' = "bridge"
    /\ UNCHANGED <<VanguardHeaderHashDB, PandoraHeaderHashDB, RealmDB, errChan, pc, work,
                   ret, writes, last, failures>>
    /\ UNCHANGED <<debounce, canonicalizeChan, isWorking, onceAtTheTime, running>>

\* the debouncer takes the event off the bridge, records it and arms its timer
\* again; it takes no event while its handler runs
DebounceReceive ==
    /\ loopPc = "bridge"
    /\ canonicalizeChan = <<>>
    /\ debounce' = [armed |-> TRUE, event |-> mergedHeadersChanBridge]
    /\ mergedHeadersChanBridge' = Nil
    /\ loopPc' = "select"
    /\ UNCHANGED engineVars
    /\ UNCHANGED <<possiblePendingWork, canonicalizeChan, isWorking, onceAtTheTime, running>>

\* the quiet period elapses: the handler is called once with the last event
DebounceFire ==
    /\ debounce.armed
    /\ canonicalizeChan = <<>>
    /\ mergedChannelHandler(debounce.event)
    /\ debounce' = [armed |-> FALSE, event |-> Nil]
    /\ UNCHANGED engineVars
    /\ UNCHANGED <<loopPc, possiblePendingWork, mergedHeadersChanBridge, isWorking,
                   onceAtTheTime, running>>

\* a loop that serves every trigger in a goroutine of its own, without the guard
ReceiveTriggerSpawned ==
    /\ loopPc = "select"
    /\ canonicalizeChan # <<>>
    /\ canonicalizeChan' = <<>>
    /\ possiblePendingWork' = <<>>
    /\ onceAtTheTime' = "done"
    /\ isWorking' = TRUE
    /\ running' = running + 1
    /\ IF pc = "idle"
       THEN Canonicalize(Head(canonicalizeChan), CanonicalizationBatchLimit)
       ELSE UNCHANGED engineVars
    /\ UNCHANGED <<loopPc, mergedHeadersChanBridge, debounce>>

\* lines 329-360: case slot := <-service.canonicalizeChan, up to the call of
\* Canonicalize inside onceAtTheTime.Do
ReceiveTrigger ==
    /\ loopPc = "select"
    /\ canonicalizeChan # <<>>
    /\ LET slot == Head(canonicalizeChan)
           once == IF ~isWorking THEN "fresh" ELSE onceAtTheTime
       IN  /\ canonicalizeChan' = <<>>
           /\ possiblePendingWork' = <<>>
           /\ IF once = "fresh"
              THEN /\ onceAtTheTime' = "done"
                   /\ isWorking' = TRUE
                   /\ running' = running + 1
                   /\ loopPc' = "do"
                   /\ Canonicalize(slot, CanonicalizationBatchLimit)
              ELSE /\ onceAtTheTime' = once
                   /\ UNCHANGED <<isWorking, running, loopPc, engineVars>>
    /\ UNCHANGED <<mergedHeadersChanBridge, debounce>>

\* lines 336-359: Canonicalize has returned; the deferred isWorking = false
AfterCanonicalize ==
    /\ running > 0
    /\ pc = "idle"
    /\ isWorking' = FALSE
    /\ running' = running - 1
    /\ loopPc' = "select"
    /\ UNCHANGED engineVars
    /\ UNCHANGED <<possiblePendingWork, mergedHeadersChanBridge, debounce,
                   canonicalizeChan, onceAtTheTime>>

\* lines 75-79: Stop sends on the unbuffered stopChan and returns once one of
\* the goroutines waiting on it has received: the goroutine of Start (lines
\* 58-67), which returns, or the work loop in its select (lines 361-367), which
\* returns. Which of the waiting receivers gets the value is not specified. The
\* select of Canonicalize (line 234) polls stopChan only at the instant of the
\* call and finds no sender, since the goroutine of Start is always waiting.
Stop ==
    /\ stopped = "no"
    /\ stopped' = IF running = 0 /\ pc = "idle" THEN "betweenPasses" ELSE "duringPass"
    /\ \/ /\ stopListener = "waiting"
          /\ stopListener' = "returned"
          /\ UNCHANGED loopPc
       \/ /\ loopPc = "select"
          /\ loopPc' = "returned"
          /\ UNCHANGED stopListener
    /\ UNCHANGED engineVars
    /\ UNCHANGED <<possiblePendingWork, mergedHeadersChanBridge, debounce,
                   canonicalizeChan, isWorking, onceAtTheTime, running>>

\* the stores when the loop starts: records the hooks have written
Ingested(hashes, slots) ==
    [s \in Slots |-> IF s \in slots THEN HeaderHash(hashes[s], Pending) ELSE Nil]

LoopInit ==
    /\ \E slots \in SUBSET Slots : VanguardHeaderHashDB = Ingested([s \in Slots |-> HashTreeRoot([Slot |-> s])], slots)
    /\ \E slots \in SUBSET Slots : PandoraHeaderHashDB = Ingested([s \in Slots |-> PandoraHash([Slot |-> s])], slots)
    /\ RealmDB = 0
    /\ errChan = <<>>
    /\ pc = "idle"
    /\ work = NoWork
    /\ ret = NoErrors
    /\ writes = {}
    /\ last = NoPass
    /\ failures = 0
    /\ events = 0
    /\ LoopNotStarted
    /\ MergeStarted
    /\ StopNotCalled
    /\ NewPanHeaderCache

\* the started service: the loop, the debouncer and the passes of the loop
LoopNext ==
    \/ (\E header \in Headers : ReceiveHeader(header)) /\ UNCHANGED <<mergeVars, stopVars, cacheVars>>
    \/ DebounceReceive /\ UNCHANGED <<mergeVars, stopVars, cacheVars>>
    \/ DebounceFire /\ UNCHANGED <<mergeVars, stopVars, cacheVars>>
    \/ ReceiveTrigger /\ UNCHANGED <<mergeVars, stopVars, cacheVars>>
    \/ AfterCanonicalize /\ UNCHANGED <<mergeVars, stopVars, cacheVars>>
    \/ Stop /\ UNCHANGED <<mergeVars, cacheVars>>
    \/ VerifyPair /\ UNCHANGED <<loopVars, mergeVars, stopVars, cacheVars>>
    \/ AfterVerify /\ UNCHANGED <<loopVars, mergeVars, stopVars, cacheVars>>
    \/ MarkOrphans /\ UNCHANGED <<loopVars, mergeVars, stopVars, cacheVars>>
    \/ ResolveSkipped /\ UNCHANGED <<loopVars, mergeVars, stopVars, cacheVars>>
    \/ FillGaps /\ UNCHANGED <<loopVars, mergeVars, stopVars, cacheVars>>

LoopSpec == LoopInit /\ [][LoopNext]_vars

\* ------------------------------------------------------------------ merge
\* a forwarder that puts every value on the output twice
DeliverTwice(received, v) == Append(Append(received, v), v)

\* line 708: out <- v, taken by the reader of the output
Deliver(received, v) == Append(received, v)

\* a closer that does not wait for the last forwarder
WaitDoneButOne(n) == n <= 1

\* line 714: wg.Wait() returns
WaitDone(n) == n = 0

Occurrences(v, seq) == Cardinality({n \in DOMAIN seq : seq[n] = v})

RECURSIVE SumOver(_, _)
SumOver(f, S) ==
    IF S = {} THEN 0
    ELSE LET x == CHOOSE y \in S : TRUE IN f[x] + SumOver(f, S \ {x})

\* how many values were sent on the inputs so far
TotalSent == SumOver([i \in Inputs |-> Len(sent[i])], Inputs)

\* a producer sends v on input i
Send(i, v) ==
    /\ ~cs[i].closed
    /\ Len(cs[i].queue) < ChanCap
    /\ TotalSent < MaxSent
    /\ cs' = [cs EXCEPT ![i].queue = Append(@, v)]
    /\ sent' = [sent EXCEPT ![i] = Append(@, v)]
    /\ UNCHANGED <<forwarder, wg, out>>

\* a producer closes input i
Close(i) ==
    /\ ~cs[i].closed
    /\ cs' = [cs EXCEPT ![i].closed = TRUE]
    /\ UNCHANGED <<forwarder, wg, out, sent>>

\* lines 707-710: for v := range c, and wg.Done() once c is closed and empty
Range(i) ==
    /\ forwarder[i].pc = "range"
    /\ IF cs[i].queue # <<>>
       THEN /\ forwarder' = [forwarder EXCEPT ![i] = [pc |-> "send", v |-> Head(cs[i].queue)]]
            /\ cs' = [cs EXCEPT ![i].queue = Tail(@)]
            /\ UNCHANGED wg
       ELSE /\ cs[i].closed
            /\ forwarder' = [forwarder EXCEPT ![i] = [pc |-> "done", v |-> 0]]
            /\ wg' = wg - 1
            /\ UNCHANGED cs
    /\ UNCHANGED <<out, sent>>

\* line 708: the send on the output; a send on a closed channel panics
Forward(i) ==
    /\ forwarder[i].pc = "send"
    /\ IF out.closed
       THEN /\ forwarder' = [forwarder EXCEPT ![i].pc = "panic"]
            /\ UNCHANGED out
       ELSE /\ out' = [out EXCEPT !.received = Deliver(@, forwarder[i].v)]
            /\ forwarder' = [forwarder EXCEPT ![i] = [pc |-> "range", v |-> 0]]
    /\ UNCHANGED <<cs, wg, sent>>

\* lines 713-716: wg.Wait(); close(out)
CloseOut ==
    /\ WaitDone(wg)
    /\ ~out.closed
    /\ out' = [out EXCEPT !.closed = TRUE]
    /\ UNCHANGED <<cs, forwarder, wg, sent>>

MergeNext ==
    \/ (\E i \in Inputs, v \in Values : Send(i, v)) /\ UNCHANGED <<engineVars, loopVars, stopVars, cacheVars>>
    \/ (\E i \in Inputs : Close(i)) /\ UNCHANGED <<engineVars, loopVars, stopVars, cacheVars>>
    \/ (\E i \in Inputs : Range(i)) /\ UNCHANGED <<engineVars, loopVars, stopVars, cacheVars>>
    \/ (\E i \in Inputs : Forward(i)) /\ UNCHANGED <<engineVars, loopVars, stopVars, cacheVars>>
    \/ CloseOut /\ UNCHANGED <<engineVars, loopVars, stopVars, cacheVars>>

\* the goroutines of merge run when they can, and the output is drained
MergeSpec ==
    /\ Init
    /\ [][MergeNext]_vars
    /\ \A i \in Inputs : /\ WF_vars(Range(i) /\ UNCHANGED <<engineVars, loopVars, stopVars, cacheVars>>)
                          /\ WF_vars(Forward(i) /\ UNCHANGED <<engineVars, loopVars, stopVars, cacheVars>>)
    /\ WF_vars(CloseOut /\ UNCHANGED <<engineVars, loopVars, stopVars, cacheVars>>)

\* ------------------------------------------- one pair through the pipeline
\* the stores a clean pass from 0 has left with the watermark at w: slot 0
\* Skipped, the slots 1..w Verified in both stores
Canonical(hashes, w) ==
    [s \in Slots |-> IF s > w THEN Nil
                     ELSE IF s = 0 THEN (IF w = 0 THEN Nil ELSE SkippedHeaderHash)
                     ELSE HeaderHash(hashes[s], Verified)]

\* the started service with the watermark at w, and storage that does not fail
PairInit ==
    /\ \E w \in 0..(MaxSlot - 1) :
         /\ RealmDB = w
         /\ VanguardHeaderHashDB = Canonical([s \in Slots |-> HashTreeRoot([Slot |-> s])], w)
         /\ PandoraHeaderHashDB = Canonical([s \in Slots |-> PandoraHash([Slot |-> s])], w)
    /\ errChan = <<>>
    /\ pc = "idle"
    /\ work = NoWork
    /\ ret = NoErrors
    /\ writes = {}
    /\ last = NoPass
    /\ failures = MaxFailures
    /\ events = 0
    /\ LoopNotStarted
    /\ MergeStarted
    /\ StopNotCalled
    /\ NewPanHeaderCache

\* the consensus chain ingests its block of the slot after the watermark and
\* announces it on VanguardHeadersChan, once
AnnounceVanguard ==
    /\ sent[1] = <<>>
    /\ OnNewPendingVanguardBlock([Slot |-> RealmDB + 1])
    /\ \E v \in Values : Send(1, v)
    /\ UNCHANGED <<loopVars, stopVars, cacheVars>>

\* the execution chain does the same on PandoraHeadersChan
AnnouncePandora ==
    /\ sent[2] = <<>>
    /\ OnNewPendingPandoraHeader([Slot |-> RealmDB + 1])
    /\ \E v \in Values : Send(2, v)
    /\ UNCHANGED <<loopVars, stopVars, cacheVars>>

\* a goroutine of merge takes a header from its input
TakeHeader == (\E i \in Inputs : Range(i)) /\ UNCHANGED <<engineVars, loopVars, stopVars, cacheVars>>

\* line 708 and line 324: the send of a goroutine of merge on the merged
\* channel meets the receive of the work loop
PassHeader == (\E i \in Inputs : Forward(i)) /\ ReceiveHeader(AnyHeader) /\ UNCHANGED <<stopVars, cacheVars>>

PairDebounceReceive == DebounceReceive /\ UNCHANGED <<mergeVars, stopVars, cacheVars>>
PairDebounceFire == DebounceFire /\ UNCHANGED <<mergeVars, stopVars, cacheVars>>
PairReceiveTrigger == ReceiveTrigger /\ UNCHANGED <<mergeVars, stopVars, cacheVars>>
PairAfterCanonicalize == AfterCanonicalize /\ UNCHANGED <<mergeVars, stopVars, cacheVars>>

\* a step of the pass
PairPass ==
    (VerifyPair \/ AfterVerify \/ MarkOrphans \/ ResolveSkipped \/ FillGaps)
        /\ UNCHANGED <<loopVars, mergeVars, stopVars, cacheVars>>

PairNext ==
    \/ AnnounceVanguard
    \/ AnnouncePandora
    \/ TakeHeader
    \/ PassHeader
    \/ PairDebounceReceive
    \/ PairDebounceFire
    \/ PairReceiveTrigger
    \/ PairAfterCanonicalize
    \/ PairPass

\* every task runs when it can: the two chains, the goroutines of merge, the
\* work loop, the debouncer and its timer, the pass
PairSpec ==
    /\ PairInit
    /\ [][PairNext]_vars
    /\ WF_vars(AnnounceVanguard) /\ WF_vars(AnnouncePandora)
    /\ WF_vars(TakeHeader) /\ WF_vars(PassHeader)
    /\ WF_vars(PairDebounceReceive) /\ WF_vars(PairDebounceFire)
    /\ WF_vars(PairReceiveTrigger) /\ WF_vars(PairAfterCanonicalize)
    /\ WF_vars(PairPass)

\* ------------------------------------------ the work loop fed by merge
\* the producers of the two header channels
FeedSend ==
    (\E i \in Inputs, v \in Values : Send(i, v))
        /\ UNCHANGED <<engineVars, loopVars, stopVars, cacheVars>>

FeedClose ==
    (\E i \in Inputs : Close(i)) /\ UNCHANGED <<engineVars, loopVars, stopVars, cacheVars>>

\* lines 713-716: the merged channel is closed
FeedCloseOut == CloseOut /\ UNCHANGED <<engineVars, loopVars, stopVars, cacheVars>>

\* line 324: a receive from the closed merged channel succeeds at once with
\* the zero value, a nil header
ReceiveClosed ==
    /\ out.closed
    /\ ReceiveHeader(Nil)
    /\ UNCHANGED <<mergeVars, stopVars, cacheVars>>

\* the started service between its two input channels and its passes
FeedNext ==
    \/ FeedSend
    \/ FeedClose
    \/ TakeHeader
    \/ PassHeader
    \/ FeedCloseOut
    \/ ReceiveClosed
    \/ PairDebounceReceive
    \/ PairDebounceFire
    \/ PairReceiveTrigger
    \/ PairAfterCanonicalize
    \/ PairPass

FeedSpec == Init /\ [][FeedNext]_vars

\* --------------------------------------------------------- PanHeaderCache
\* maxPanHeaderCacheSize (1 << 10), at the size of the model
maxPanHeaderCacheSize == CacheSlots - 1

\* the header at address a, by value
Value(a) == [Number |-> headers[a].Number, Extra |-> extras[headers[a].Extra]]

\* a copy that shares the byte slice of the original
CopyHeaderShallow(hs, es, a) == [headers |-> Append(hs, hs[a]), extras |-> es]

\* types.CopyHeader: a new header with a byte slice of its own; the copy is the
\* last header of the result
CopyHeader(hs, es, a) ==
    [headers |-> Append(hs, [Number |-> hs[a].Number, Extra |-> Len(es) + 1]),
     extras |-> Append(es, es[hs[a].Extra])]

\* lru.Cache.Add and lru.Cache.Get: the key becomes the most recently used, and
\* the least recently used keys beyond the size are evicted
Touch(c, slot, item) ==
    LET order == <<slot>> \o SelectSeq(c.order, LAMBDA k : k # slot)
        kept == SubSeq(order, 1, Min(Len(order), maxPanHeaderCacheSize))
    IN  [items |-> [k \in CacheKeys |->
                       IF k = slot THEN item
                       ELSE IF \E n \in 1..Len(kept) : kept[n] = k THEN c.items[k]
                       ELSE NoHeader],
         order |-> kept]

\* lines 38-42: Put
Put(slot, header) ==
    /\ header \in held
    /\ Len(headers) < MaxHeaders
    /\ LET heap == CopyHeader(headers, extras, header)
           copyHeader == Len(heap.headers)
       IN  /\ headers' = heap.headers
           /\ extras' = heap.extras
           /\ cache' = Touch(cache, slot, copyHeader)
    /\ puts' = [value |-> [puts.value EXCEPT ![slot] = Value(header)], last |-> slot]
    /\ op' = [name |-> "Put", slot |-> slot, result |-> NoHeader]
    /\ UNCHANGED held

\* lines 45-53: Get; errInvalidSlot is result = NoHeader
Get(slot) ==
    LET item == cache.items[slot]
    IN  IF item # NoHeader
        THEN /\ Len(headers) < MaxHeaders
             /\ LET heap == CopyHeader(headers, extras, item)
                    copiedHeader == Len(heap.headers)
                IN  /\ headers' = heap.headers
                    /\ extras' = heap.extras
                    /\ held' = held \cup {copiedHeader}
                    /\ op' = [name |-> "Get", slot |-> slot, result |-> copiedHeader]
             /\ cache' = Touch(cache, slot, item)
             /\ UNCHANGED puts
        ELSE /\ op' = [name |-> "Get", slot |-> slot, result |-> NoHeader]
             /\ UNCHANGED <<headers, extras, cache, held, puts>>

\* a caller writes a field of a header it holds, or a byte of its slice
Mutate(header, field, v) ==
    /\ header \in held
    /\ IF field = "Number"
       THEN /\ headers' = [headers EXCEPT ![header].Number = v]
            /\ UNCHANGED extras
       ELSE /\ extras' = [extras EXCEPT ![headers[header].Extra] = v]
            /\ UNCHANGED headers
    /\ op' = [name |-> "Mutate", slot |-> 0, result |-> NoHeader]
    /\ UNCHANGED <<cache, held, puts>>

CacheNext ==
    \/ (\E slot \in CacheKeys, header \in 1..MaxHeaders : Put(slot, header))
           /\ UNCHANGED <<engineVars, loopVars, mergeVars, stopVars>>
    \/ (\E slot \in CacheKeys : Get(slot))
           /\ UNCHANGED <<engineVars, loopVars, mergeVars, stopVars>>
    \/ (\E header \in 1..MaxHeaders, field \in {"Number", "Extra"}, v \in 0..(CacheValues - 1) :
            Mutate(header, field, v))
           /\ UNCHANGED <<engineVars, loopVars, mergeVars, stopVars>>

CacheSpec == Init /\ [][CacheNext]_vars

\* ----------------------------------------------------------------- claims
InPass == pc \in {"verify", "break", "orphans", "skipped", "fill"}

\* a pass has ended and nothing was ingested since
AfterPass == pc = "idle" /\ last.ended

IsTerminal(headerHash) == headerHash.Status \in {Verified, Skipped}

\* the Save calls the step makes
NewWrites == writes' \ writes

\* C1: the watermark never decreases from one state to the next, the states in
\* the middle of a pass included.
C1_Monotonic == [][RealmDB' >= RealmDB]_vars

\* C2: once a pass has ended, with or without an error, a slot is Verified in
\* the consensus store if and only if it is Verified in the execution store.
C2_Pairing ==
    AfterPass =>
        \A s \in Slots :
            VanguardHeaderHashDB[s].Status = Verified
                <=> PandoraHeaderHashDB[s].Status = Verified

\* C3: once a pass has ended without reporting an error and has advanced the
\* watermark, every slot up to the watermark holds a Verified or Skipped record
\* in both stores.
C3_TerminalBehindWatermark ==
    (AfterPass /\ ~last.errored /\ last.realm > last.start) =>
        \A s \in 0..RealmDB :
            /\ IsTerminal(VanguardHeaderHashDB[s])
            /\ IsTerminal(PandoraHeaderHashDB[s])

\* C4: a Verified record never carries the empty hash, in either store.
C4_VerifiedNonEmpty ==
    \A s \in Slots :
        /\ VanguardHeaderHashDB[s].Status = Verified
               => VanguardHeaderHashDB[s].HeaderHash # EmptyHash
        /\ PandoraHeaderHashDB[s].Status = Verified
               => PandoraHeaderHashDB[s].HeaderHash # EmptyHash

\* C5: no step of a pass replaces a Verified record by a Skipped or a Pending one.
C5_NoDowngrade ==
    [][InPass =>
          \A s \in Slots :
              /\ VanguardHeaderHashDB[s].Status = Verified
                     => VanguardHeaderHashDB'[s].Status \notin {Skipped, Pending}
              /\ PandoraHeaderHashDB[s].Status = Verified
                     => PandoraHeaderHashDB'[s].Status \notin {Skipped, Pending}]_vars

\* C6: the watermark changes only by a Save the pass makes, and every Save of a
\* slot to the realm is made in the step that found a record at that slot in both
\* batches and wrote both as Verified, their hashes kept, without a failure.
C6_WatermarkOnlyVerified ==
    [][/\ RealmDB' # RealmDB => <<"realm", RealmDB', Verified>> \in NewWrites
       /\ \A s \in Slots :
            <<"realm", s, Verified>> \in NewWrites =>
                /\ pc = "verify"
                /\ s = work.fromSlot + work.index
                /\ work.vanguardHashes[work.index + 1] # Nil
                /\ work.pandoraHashes[work.index + 1] # Nil
                /\ <<"vanguard", s, Verified>> \in NewWrites
                /\ <<"pandora", s, Verified>> \in NewWrites
                /\ VanguardHeaderHashDB'[s] =
                       HeaderHash(work.vanguardHashes[work.index + 1].HeaderHash, Verified)
                /\ PandoraHeaderHashDB'[s] =
                       HeaderHash(work.pandoraHashes[work.index + 1].HeaderHash, Verified)]_vars

\* C6 witness: a pass has just saved the watermark at a slot above 0, which is
\* Verified in both stores.
C6_Witness ==
    /\ pc = "verify"
    /\ RealmDB > 0
    /\ <<"realm", RealmDB, Verified>> \in writes
    /\ VanguardHeaderHashDB[RealmDB].Status = Verified
    /\ PandoraHeaderHashDB[RealmDB].Status = Verified

\* C7: a pass that follows a pass of the same arguments with no ingestion in
\* between, neither of them meeting a storage failure, ends with the stores and
\* the watermark as the first pass left them.
C7_IdempotentReplay ==
    [][(/\ InPass /\ pc' = "idle"
        /\ last.ended /\ last.clean /\ ~last.errored
        /\ last'.clean /\ ~last'.errored
        /\ last'.fromSlot = last.fromSlot
        /\ last'.batchLimit = last.batchLimit)
       => /\ last'.vanguard = last.vanguard
          /\ last'.pandora = last.pandora
          /\ last'.realm = last.realm]_vars

\* C8: in a pass from slot 0 that follows, with no ingestion in between, a pass
\* that advanced the watermark to w > 0 without failure, no Save is called on
\* either store or on the realm and the watermark stays at w.
C8_ReplayFromZeroWritesNothing ==
    (/\ InPass /\ work.fromSlot = 0
     /\ last.ended /\ last.clean /\ ~last.errored
     /\ last.realm > last.start)
    => writes = {} /\ RealmDB = last.realm

\* C9: when the write of the Verified record at slot k fails on the consensus
\* store alone, the batch holding a record in both stores at every slot up to k
\* and Pending ones at k, the pass ends with every slot before k Verified in
\* both stores, slot k Pending in both, the watermark at k - 1 and an error with
\* vanguardErr set on the error channel.
C9_FailureMidPass ==
    [][(/\ pc = "break" /\ pc' = "idle"
        /\ work.vanguardErr /\ ~work.pandoraErr
        /\ work.index >= 1
        /\ \A i \in 1..(work.index + 1) :
              work.vanguardHashes[i] # Nil /\ work.pandoraHashes[i] # Nil
        /\ work.vanguardHashes[work.index + 1].Status = Pending
        /\ work.pandoraHashes[work.index + 1].Status = Pending)
       => LET k == work.fromSlot + work.index
          IN  /\ \A s \in work.fromSlot..(k - 1) :
                    /\ VanguardHeaderHashDB'[s].Status = Verified
                    /\ PandoraHeaderHashDB'[s].Status = Verified
              /\ VanguardHeaderHashDB'[k].Status = Pending
              /\ PandoraHeaderHashDB'[k].Status = Pending
              /\ RealmDB' = k - 1
              /\ errChan' # <<>>
              /\ errChan'[Len(errChan')].vanguardErr]_vars

\* C10: a pass in which a storage operation failed ends by sending a composite
\* error on the error channel.
C10_ErrorSurfaced ==
    (AfterPass /\ ~last.clean) => last.errored

\* C11: when a pass ends, the call of Canonicalize that ran it returns the error
\* the pass sent, and three nil errors when the pass sent none.
C11_ErrorReturned ==
    [][(InPass /\ pc' = "idle") =>
          IF last'.errored
          THEN errChan' # <<>> /\ ret' = errChan'[Len(errChan')]
          ELSE ret' = NoErrors]_vars

\* C12: a call of Canonicalize whose range read returned an empty batch
\* terminates: it is never left waiting on its skip channel.
C12_EmptyBatchReturns == pc # "blockedOnSkip"

\* C13: a call of Canonicalize with fromSlot above the watermark terminates with
\* its realm error: it is never left waiting for a work payload while that
\* error sits on the error channel.
C13_CannotStartWithoutRoot ==
    ~(/\ pc = "blockedOnPayload"
      /\ errChan # <<>>
      /\ errChan[Len(errChan)] = databaseErrors(FALSE, FALSE, TRUE))

\* a pass of the loop has ended with an error and no call was made since
FailedPassPending ==
    /\ pc = "idle" /\ running = 0
    /\ last.ended /\ last.errored
    /\ ret = NoErrors

\* the step in which the debounce handler runs
HandlerRuns == debounce.armed /\ ~debounce'.armed

\* C14: the call of Canonicalize the loop makes for the first trigger after a
\* failed pass runs a pass: it reads both stores from the watermark and goes on
\* to the commit step.
C14_NextTriggerRunsPass ==
    [][(FailedPassPending /\ running' > running) =>
          /\ pc' = "verify"
          /\ work'.fromSlot = RealmDB
          /\ work'.invalidationStartRealmSlot = RealmDB]_vars

\* C15: at most one call of Canonicalize made by the loop is executing, and every
\* pass in progress is the pass of that call.
C15_SingleWriter == running <= 1 /\ (InPass => running = 1)

\* C15 witness: a pass of the loop is executing after an earlier one has ended.
C15_Witness == running = 1 /\ InPass /\ last.ended

\* C16: when the debounce handler runs it sends the watermark on the trigger
\* channel if and only if at least two headers were accumulated since the last
\* trigger; otherwise no pass starts and the stores and the watermark are
\* unchanged.
C16_TriggerThreshold ==
    [][HandlerRuns =>
          IF Len(possiblePendingWork) >= 2
          THEN canonicalizeChan' = <<RealmDB>>
          ELSE /\ canonicalizeChan' = <<>>
               /\ UNCHANGED <<dbs, pc, running>>]_vars

\* C16, amended: when the debounce handler runs it sends the watermark on the
\* trigger channel if and only if the header it is called with is not nil and at
\* least two headers, nil ones included, were accumulated since the last
\* trigger; otherwise no pass starts and the stores and the watermark are
\* unchanged.
C16_TriggerThresholdNonNil ==
    [][HandlerRuns =>
          IF debounce.event # Nil /\ Len(possiblePendingWork) >= 2
          THEN canonicalizeChan' = <<RealmDB>>
          ELSE /\ canonicalizeChan' = <<>>
               /\ UNCHANGED <<dbs, pc, running>>]_vars

\* C16 witness: the handler has run on two accumulated headers and is sending
\* the watermark.
C16_Witness ==
    /\ canonicalizeChan = <<RealmDB>>
    /\ Len(possiblePendingWork) >= 2
    /\ ~debounce.armed

\* how often v was sent on the inputs
SentCount(v) == SumOver([i \in Inputs |-> Occurrences(v, sent[i])], Inputs)

\* how often v waits in an input or in the hands of a forwarder
InFlight(v) ==
    SumOver([i \in Inputs |->
                Occurrences(v, cs[i].queue)
                + (IF forwarder[i].pc = "send" /\ forwarder[i].v = v THEN 1 ELSE 0)],
            Inputs)

AllInputsClosed == \A i \in Inputs : cs[i].closed

AllForwarded ==
    \A i \in Inputs : cs[i].closed /\ cs[i].queue = <<>> /\ forwarder[i].pc = "done"

\* C17: at every moment each value was received from the output as often as it
\* was sent on the inputs, less the copies still on their way, and in the end
\* no copy is on its way: every value sent is delivered exactly once.
C17_MergeComplete ==
    /\ [](\A v \in Values : Occurrences(v, out.received) + InFlight(v) = SentCount(v))
    /\ <>[](\A v \in Values : InFlight(v) = 0)

\* C17 witness: values were sent on every input and all of them were received.
C17_Witness ==
    /\ \A i \in Inputs : sent[i] # <<>>
    /\ Len(out.received) = TotalSent

\* C18: the output is closed only when every input is closed and emptied and
\* every forwarder is done, and once every input is closed the output is
\* closed in the end.
C18_MergeClosing ==
    /\ [](out.closed => AllForwarded)
    /\ (AllInputsClosed ~> out.closed)

\* C18 witness: the output was closed after values went through it.
C18_Witness == out.closed /\ Len(out.received) >= 2

\* an ingestion hook ran
Ingestion == pc = "idle" /\ events' = events + 1

\* C19: an ingestion of a consensus block leaves every Verified or Skipped
\* record of the consensus store as it was.
C19_HookKeepsTerminal ==
    [][Ingestion =>
          \A s \in Slots :
              IsTerminal(VanguardHeaderHashDB[s])
                  => VanguardHeaderHashDB'[s] = VanguardHeaderHashDB[s]]_vars

\* the orphans the verification loop of the pass collected
Orphans == work.pandoraOrphans \cup work.vanguardOrphans

\* C20: the step that marks the orphans writes Skipped only on orphan slots at
\* or behind the watermark read after the verification loop, and leaves both
\* records of an orphan slot above it as they were.
C20_OrphanBehindWatermark ==
    [][pc = "orphans" =>
          /\ \A w \in NewWrites : w[3] = Skipped => w[2] <= work.latestSavedVerifiedRealmSlot
          /\ \A s \in Orphans :
                 s > work.latestSavedVerifiedRealmSlot
                     => /\ VanguardHeaderHashDB'[s] = VanguardHeaderHashDB[s]
                        /\ PandoraHeaderHashDB'[s] = PandoraHeaderHashDB[s]]_vars

\* the step that ends a pass
PassEnds == InPass /\ pc' = "idle"

\* the slots of the batch the pass read when it started
BatchSlots == {s \in Slots : work.fromSlot <= s /\ s < work.fromSlot + work.batchLimit}

\* the batch held a record of both stores at slot s
InBoth(s) ==
    /\ work.vanguardHashes[s - work.fromSlot + 1] # Nil
    /\ work.pandoraHashes[s - work.fromSlot + 1] # Nil

\* C21: when a pass that started at the watermark w ends without a storage
\* error and m > w is the highest slot of its batch with a record in both
\* stores, the watermark is m, every slot of (w, m] with a record in both stores
\* is Verified in both with the hash it had, and every other slot of (w, m) is
\* {empty hash, Skipped} in both stores.
C21_SkipResolution ==
    [][(/\ PassEnds
        /\ work.fromSlot = work.invalidationStartRealmSlot
        /\ last'.clean /\ ~last'.errored
        /\ \E s \in BatchSlots : s > work.fromSlot /\ InBoth(s))
       => LET w == work.fromSlot
              m == Max({s \in BatchSlots : s > w /\ InBoth(s)})
          IN  /\ RealmDB' = m
              /\ \A s \in BatchSlots :
                     (w < s /\ s <= m) =>
                         IF InBoth(s)
                         THEN /\ VanguardHeaderHashDB'[s] =
                                     VerifiedHeaderHash(work.vanguardHashes[s - w + 1])
                              /\ PandoraHeaderHashDB'[s] =
                                     VerifiedHeaderHash(work.pandoraHashes[s - w + 1])
                         ELSE /\ VanguardHeaderHashDB'[s] = SkippedHeaderHash
                              /\ PandoraHeaderHashDB'[s] = SkippedHeaderHash]_vars

\* C21 witness: neither chain produced at slot 1, both produced at slot 2, and
\* the pass from 0 has ended: slot 1 is Skipped in both stores, the watermark is 2.
C21_Witness ==
    /\ AfterPass /\ events = 3
    /\ last.clean /\ ~last.errored /\ last.fromSlot = 0 /\ last.start = 0
    /\ RealmDB = 2
    /\ VanguardHeaderHashDB[1] = SkippedHeaderHash
    /\ PandoraHeaderHashDB[1] = SkippedHeaderHash
    /\ VanguardHeaderHashDB[2] = HeaderHash(HashTreeRoot([Slot |-> 2]), Verified)
    /\ PandoraHeaderHashDB[2] = HeaderHash(PandoraHash([Slot |-> 2]), Verified)

\* C22: during a pass the persisted watermark holds the value it had when the
\* pass started or the value it has when the pass ends: once it has left the
\* value of the start, no later step of the pass changes it again.
C22_WatermarkAtomic ==
    [][(InPass /\ RealmDB # work.invalidationStartRealmSlot) => RealmDB' = RealmDB]_vars

\* the loop calls Canonicalize
PassStarts == running' > running

\* C23: once a Stop made between two passes has returned, the work loop starts
\* no pass.
C23_NoPassAfterStop == [][stopped = "betweenPasses" => ~PassStarts]_vars

\* C24: a Get of the slot that was Put last finds a header, and a header
\* returned by Get is equal by value to the header its slot was last Put with,
\* as it was at the time of the Put, whatever the callers wrote since to the
\* headers they hold; it is neither the cached header nor shares its byte slice.
C24_CacheRoundTrip ==
    op.name = "Get" =>
        /\ op.slot = puts.last => op.result # NoHeader
        /\ op.result # NoHeader =>
               /\ Value(op.result) = puts.value[op.slot]
               /\ op.result # cache.items[op.slot]
               /\ headers[op.result].Extra # headers[cache.items[op.slot]].Extra

\* C24 witness: header 1 was Put at slot 0, the caller then wrote both its
\* fields, and Get(0) has returned the header as it was Put.
C24_Witness ==
    /\ op.name = "Get" /\ op.slot = 0 /\ op.result # NoHeader
    /\ puts.value[0] = [Number |-> 0, Extra |-> 0]
    /\ Value(1) = [Number |-> 1, Extra |-> 1]

\* both records of slot s are Verified with the hashes their chains gave them
\* and the watermark is s
PairVerified(s) ==
    /\ VanguardHeaderHashDB[s] = HeaderHash(HashTreeRoot([Slot |-> s]), Verified)
    /\ PandoraHeaderHashDB[s] = HeaderHash(PandoraHash([Slot |-> s]), Verified)
    /\ RealmDB = s

\* C25: with the watermark at w, when each chain ingests and announces one
\* record at slot w + 1 and nothing else is announced, the records of slot
\* w + 1 are in the end Verified with their hashes and the watermark is w + 1.
C25_PairVerifiedInTheEnd ==
    \A w \in 0..(MaxSlot - 1) : (RealmDB = w) => <>PairVerified(w + 1)

\* C26: a pass that ends with the watermark where it was when the pass started
\* has written no Skipped record, and every slot of its batch that did not hold
\* a record in both stores is as the pass read it.
C26_NoProgressNoSkips ==
    [][(PassEnds /\ RealmDB' = work.invalidationStartRealmSlot)
       => /\ \A w \in writes' : w[3] # Skipped
          /\ \A s \in BatchSlots :
                 ~InBoth(s) =>
                     /\ VanguardHeaderHashDB'[s] = work.vanguardHashes[s - work.fromSlot + 1]
                     /\ PandoraHeaderHashDB'[s] = work.pandoraHashes[s - work.fromSlot + 1]]_vars

\* C26 witness: a pass has ended without error and without progress, and an
\* orphan and a both-empty slot of its batch are as they were.
C26_Witness ==
    /\ AfterPass /\ ~last.errored /\ last.realm = last.start
    /\ last.fromSlot = 0 /\ last.batchLimit = MaxSlot + 1
    /\ \E s \in Slots : VanguardHeaderHashDB[s].Status = Pending /\ PandoraHeaderHashDB[s] = Nil
    /\ \E s \in Slots : VanguardHeaderHashDB[s] = Nil /\ PandoraHeaderHashDB[s] = Nil

\* C27: the final step of a pass changes a record of a store only at a slot
\* where that store held no record when the step read it, and only at or below
\* the watermark; a record that exists is not overwritten.
C27_FillOnlyGaps ==
    [][pc = "fill"
       => \A s \in Slots :
              /\ VanguardHeaderHashDB'[s] # VanguardHeaderHashDB[s]
                     => VanguardHeaderHashDB[s] = Nil /\ s <= work.latestSavedVerifiedRealmSlot
              /\ PandoraHeaderHashDB'[s] # PandoraHeaderHashDB[s]
                     => PandoraHeaderHashDB[s] = Nil /\ s <= work.latestSavedVerifiedRealmSlot]_vars

C29_NegativeRangeStops ==
    pc \in {"orphans", "skipped", "fill"}
        => work.latestSavedVerifiedRealmSlot >= work.invalidationStartRealmSlot

\* the work loop waits in its send on the bridge channel
LoopBlockedOnBridge == loopPc = "bridge"

\* the debouncer is inside its handler, which waits in its send on canonicalizeChan
HandlerBlockedOnTrigger == canonicalizeChan # <<>>

\* C30: the work loop never waits on the bridge channel while the debouncer
\* waits inside the handler on the trigger channel.
C30_NoBridgeTriggerDeadlock == ~(LoopBlockedOnBridge /\ HandlerBlockedOnTrigger)

\* the work loop takes an event: it appends it to possiblePendingWork and
\* starts to forward it to the debouncer
LoopTakesEvent ==
    \/ Len(possiblePendingWork') > Len(possiblePendingWork)
    \/ loopPc # "bridge" /\ loopPc' = "bridge"

\* C31: once every input channel is closed and the merged channel is closed,
\* the work loop forwards no further event and possiblePendingWork does not grow.
C31_NoEventAfterClose ==
    [][(AllInputsClosed /\ out.closed) => ~LoopTakesEvent]_vars

====
